---- MODULE Spec2Model ----
(***************************************************************************)
(* Conway's Game of Life, src/main.py (src/app.py carries the same         *)
(* functions and the same main loop behind a configuration sidebar).       *)
(*                                                                         *)
(* The live cells are a set of (col, row) pairs.  One iteration of the     *)
(* main loop is a frame: the tick step (count and, when due, adjust_grid), *)
(* then the pending input events one by one, then the redraw.              *)
(***************************************************************************)
EXTENDS Integers, FiniteSets, Sequences, TLC

\* Program state: positions, playing, count, running (main's locals), the
\* window caption, and pc, the place in the loop body ("tick", "events",
\* "done" after pygame.quit()).
\* History, read by the properties only: ticked (tick steps taken while
\* playing) and advances (calls of adjust_grid), both since the start or the
\* last clear key; delivered (input events processed); undo (see below).
\* A KEYDOWN of any key other than space, c and g changes nothing and is a
\* stuttering step.
VARIABLES positions, playing, count, running, caption, pc, ticked, advances,
          delivered, undo

vars == <<positions, playing, count, running, caption, pc, ticked, advances,
          delivered, undo>>

(***************************************************************************)
(* Configuration.  The program runs a 40 x 40 grid of 20-pixel tiles and   *)
(* advances every 120 frames; the model keeps the same definitions on a    *)
(* scaled-down grid.                                                       *)
(***************************************************************************)
GridCells == 4

TILE_SIZE == 2

WIDTH == GridCells * TILE_SIZE

HEIGHT == GridCells * TILE_SIZE

GRID_WIDTH == WIDTH \div TILE_SIZE

GRID_HEIGHT == HEIGHT \div TILE_SIZE

update_freq == 2

\* The input source delivers at most this many events in a session.
MaxEvents == 4

\* The history counters below stop counting at these values.
MaxTicks == 2 * update_freq + 1

MaxAdvances == (MaxTicks \div update_freq) + 1

Min(a, b) == IF a < b THEN a ELSE b

(***************************************************************************)
(* The patterns the specification names.                                   *)
(***************************************************************************)
BlinkerH == {<<1, 2>>, <<2, 2>>, <<3, 2>>}

BlinkerV == {<<2, 1>>, <<2, 2>>, <<2, 3>>}

Block == {<<1, 1>>, <<1, 2>>, <<2, 1>>, <<2, 2>>}

\* Columns and rows the named patterns span: the pointer is pressed there.
BoxCols == {c[1] : c \in BlinkerH \cup BlinkerV \cup Block}

BoxRows == {c[2] : c \in BlinkerH \cup BlinkerV \cup Block}

PointerXs == {px \in 0 .. WIDTH - 1 : px \div TILE_SIZE \in BoxCols}

PointerYs == {py \in 0 .. HEIGHT - 1 : py \div TILE_SIZE \in BoxRows}

(***************************************************************************)
(* get_neighbors: the offsets in {-1,0,1}^2 other than (0,0) whose target  *)
(* is not below 0 and not above GRID_WIDTH / GRID_HEIGHT.  The list the    *)
(* code builds has no duplicates, so it is modelled as a set.              *)
(***************************************************************************)
\* Variant: the upper bound test written >=.
get_neighbors_strict(pos) ==
    LET x == pos[1]
        y == pos[2]
    IN  {<<x + dx, y + dy>> :
            dx \in {d \in {-1, 0, 1} : ~(x + d < 0 \/ x + d >= GRID_WIDTH)},
            dy \in {d \in {-1, 0, 1} : ~(y + d < 0 \/ y + d >= GRID_HEIGHT)}}
        \ {<<x, y>>}

\* Variant: the (0,0) offset not skipped.
get_neighbors_self(pos) ==
    LET x == pos[1]
        y == pos[2]
    IN  {<<x + dx, y + dy>> :
            dx \in {d \in {-1, 0, 1} : ~(x + d < 0 \/ x + d > GRID_WIDTH)},
            dy \in {d \in {-1, 0, 1} : ~(y + d < 0 \/ y + d > GRID_HEIGHT)}}

\* Variant: no test against the ends of the grid.
get_neighbors_unbounded(pos) ==
    LET x == pos[1]
        y == pos[2]
    IN  {<<x + dx, y + dy>> : dx \in {-1, 0, 1}, dy \in {-1, 0, 1}}
        \ {<<x, y>>}

\* Variant: a coordinate past an edge taken from the opposite edge.
get_neighbors_wrap(pos) ==
    LET x == pos[1]
        y == pos[2]
    IN  {<<(x + dx) % (GRID_WIDTH + 1), (y + dy) % (GRID_HEIGHT + 1)>> :
            dx \in {-1, 0, 1}, dy \in {-1, 0, 1}}
        \ {<<x, y>>}

get_neighbors(pos) ==
    LET x == pos[1]
        y == pos[2]
    IN  {<<x + dx, y + dy>> :
            dx \in {d \in {-1, 0, 1} : ~(x + d < 0 \/ x + d > GRID_WIDTH)},
            dy \in {d \in {-1, 0, 1} : ~(y + d < 0 \/ y + d > GRID_HEIGHT)}}
        \ {<<x, y>>}

\* len(list(filter(lambda x: x in positions, neighbors)))
live_neighbors(pos, live) == Cardinality({n \in get_neighbors(pos) : n \in live})

\* Variant: the survival test written == 3.
adjust_grid_keep3(live) ==
    LET all_neighbors == UNION {get_neighbors(p) : p \in live}
        kept == {p \in live : live_neighbors(p, live) \in {3}}
        born == {p \in all_neighbors : live_neighbors(p, live) = 3}
    IN  kept \cup born

\* Variant: the birth test written in [2, 3].
adjust_grid_born23(live) ==
    LET all_neighbors == UNION {get_neighbors(p) : p \in live}
        kept == {p \in live : live_neighbors(p, live) \in {2, 3}}
        born == {p \in all_neighbors : live_neighbors(p, live) \in {2, 3}}
    IN  kept \cup born

(***************************************************************************)
(* adjust_grid: survivors (first loop) and births over all_neighbors       *)
(* (second loop), both added to new_positions.                             *)
(***************************************************************************)
\* Variant: every cell of the grid is a candidate, born with at most 3 live
\* neighbours.
adjust_grid_dense(live) ==
    LET kept == {p \in live : live_neighbors(p, live) \in {2, 3}}
        born == {p \in (0 .. GRID_WIDTH) \X (0 .. GRID_HEIGHT) :
                    live_neighbors(p, live) <= 3}
    IN  kept \cup born

adjust_grid(live) ==
    LET all_neighbors == UNION {get_neighbors(p) : p \in live}
        kept == {p \in live : live_neighbors(p, live) \in {2, 3}}
        born == {p \in all_neighbors : live_neighbors(p, live) = 3}
    IN  kept \cup born

\* Variant: the press always adds.
toggle_add(live, pos) == live \cup {pos}

\* The click handler's membership flip.
toggle(live, pos) == IF pos \in live THEN live \ {pos} ELSE live \cup {pos}

(***************************************************************************)
(* gen(num): the sets num draws can produce.  Each draw is                 *)
(* (randrange(0, GRID_HEIGHT), randrange(0, GRID_WIDTH)), used as          *)
(* (col, row); the model draws the lowest and the highest value of each    *)
(* range.                                                                  *)
(***************************************************************************)
RandomFirst == {0, GRID_HEIGHT - 1}

RandomSecond == {0, GRID_WIDTH - 1}

\* Variant: the ranges taken with their upper end included.
gen_inclusive(num) ==
    {s \in SUBSET ({0, GRID_HEIGHT} \X {0, GRID_WIDTH}) :
        /\ Cardinality(s) <= num
        /\ (num > 0 => s # {})}

gen(num) ==
    {s \in SUBSET (RandomFirst \X RandomSecond) :
        /\ Cardinality(s) <= num
        /\ (num > 0 => s # {})}

(***************************************************************************)
(* History of the last pointer presses, kept only by the specification     *)
(* that checks the press round trip (SpecToggle); "off" elsewhere.  n is   *)
(* the number of presses in succession on cell, before the live set ahead  *)
(* of the first of them.  A key event, a quit event or an advance ends the *)
(* succession.                                                             *)
(***************************************************************************)
NoUndo == [on |-> FALSE, cell |-> <<0, 0>>, before |-> {}, n |-> 0]

FreshUndo == [on |-> TRUE, cell |-> <<0, 0>>, before |-> {}, n |-> 0]

Forget(u) == IF u.on THEN FreshUndo ELSE NoUndo

Pressed(u, pos, live) ==
    IF ~u.on THEN NoUndo
    ELSE IF u.n = 1 /\ u.cell = pos
         THEN [on |-> TRUE, cell |-> pos, before |-> u.before, n |-> 2]
         ELSE [on |-> TRUE, cell |-> pos, before |-> live, n |-> 1]

(***************************************************************************)
(* main(): the state after the assignments before the loop.                *)
(***************************************************************************)
Init ==
    /\ positions = {}
    /\ playing = FALSE
    /\ count = 0
    /\ running = TRUE
    /\ caption = "pygame window"
    /\ pc = "tick"
    /\ ticked = 0
    /\ advances = 0
    /\ delivered = 0
    /\ undo = NoUndo

\* The tick step with the count step and the due test as parameters.
TickWith(c1, due) ==
    /\ pc = "tick"
    /\ count' = IF due THEN 0 ELSE c1
    /\ positions' = IF due THEN adjust_grid(positions) ELSE positions
    /\ advances' = IF due THEN Min(advances + 1, MaxAdvances) ELSE advances
    /\ ticked' = IF playing THEN Min(ticked + 1, MaxTicks) ELSE ticked
    /\ caption' = IF playing THEN "Playing" ELSE "Paused"
    /\ pc' = "events"
    /\ undo' = IF due THEN Forget(undo) ELSE undo
    /\ UNCHANGED <<playing, running, delivered>>

\* Variant: the due test written count > update_freq.
TickLate ==
    LET c1 == IF playing THEN count + 1 ELSE count
    IN  TickWith(c1, c1 > update_freq)

\* Variant: the count step taken whether playing or not.
TickAlways ==
    LET c1 == count + 1
    IN  TickWith(c1, c1 >= update_freq)

\* clock.tick(FPS); the count step; the advance when due; set_caption.
Tick ==
    LET c1 == IF playing THEN count + 1 ELSE count
    IN  TickWith(c1, c1 >= update_freq)

\* event.type == pygame.QUIT
Quit ==
    /\ pc = "events"
    /\ delivered < MaxEvents
    /\ delivered' = delivered + 1
    /\ running' = FALSE
    /\ undo' = Forget(undo)
    /\ UNCHANGED <<positions, playing, count, caption, pc, ticked, advances>>

\* event.type == pygame.MOUSEBUTTONDOWN with the pointer at pixel (px, py)
MouseButtonDown(px, py) ==
    /\ pc = "events"
    /\ delivered < MaxEvents
    /\ delivered' = delivered + 1
    /\ LET col == px \div TILE_SIZE
           row == py \div TILE_SIZE
           pos == <<col, row>>
       IN  /\ positions' = toggle(positions, pos)
           /\ undo' = Pressed(undo, pos, positions)
    /\ UNCHANGED <<playing, count, running, caption, pc, ticked, advances>>

\* Variant: the space key sets count back to 0.
KeySpaceReset ==
    /\ pc = "events"
    /\ delivered < MaxEvents
    /\ delivered' = delivered + 1
    /\ playing' = ~playing
    /\ count' = 0
    /\ undo' = Forget(undo)
    /\ UNCHANGED <<positions, running, caption, pc, ticked, advances>>

\* Variant: the space key also takes the count step of its own frame.
KeySpaceEager ==
    /\ pc = "events"
    /\ delivered < MaxEvents
    /\ delivered' = delivered + 1
    /\ playing' = ~playing
    /\ count' = IF playing' THEN (count + 1) % update_freq ELSE count
    /\ undo' = Forget(undo)
    /\ UNCHANGED <<positions, running, caption, pc, ticked, advances>>

\* event.type == pygame.KEYDOWN, event.key == pygame.K_SPACE
KeySpace ==
    /\ pc = "events"
    /\ delivered < MaxEvents
    /\ delivered' = delivered + 1
    /\ playing' = ~playing
    /\ undo' = Forget(undo)
    /\ UNCHANGED <<positions, count, running, caption, pc, ticked, advances>>

\* Variant: the clear key leaves count alone.
KeyCKeepCount ==
    /\ pc = "events"
    /\ delivered < MaxEvents
    /\ delivered' = delivered + 1
    /\ positions' = {}
    /\ playing' = FALSE
    /\ ticked' = 0
    /\ advances' = 0
    /\ undo' = Forget(undo)
    /\ UNCHANGED <<count, running, caption, pc>>

\* event.type == pygame.KEYDOWN, event.key == pygame.K_c
KeyC ==
    /\ pc = "events"
    /\ delivered < MaxEvents
    /\ delivered' = delivered + 1
    /\ positions' = {}
    /\ playing' = FALSE
    /\ count' = 0
    /\ ticked' = 0
    /\ advances' = 0
    /\ undo' = Forget(undo)
    /\ UNCHANGED <<running, caption, pc>>

\* Variant: the generate key also pauses, as the clear key does.
KeyGPause ==
    /\ pc = "events"
    /\ delivered < MaxEvents
    /\ delivered' = delivered + 1
    /\ \E k \in 4 .. 9 : \E s \in gen(k * GRID_WIDTH) : positions' = s
    /\ playing' = FALSE
    /\ undo' = Forget(undo)
    /\ UNCHANGED <<count, running, caption, pc, ticked, advances>>

\* event.type == pygame.KEYDOWN, event.key == pygame.K_g
KeyG ==
    /\ pc = "events"
    /\ delivered < MaxEvents
    /\ delivered' = delivered + 1
    /\ \E k \in 4 .. 9 : \E s \in gen(k * GRID_WIDTH) : positions' = s
    /\ undo' = Forget(undo)
    /\ UNCHANGED <<playing, count, running, caption, pc, ticked, advances>>

\* Variant: the while test left out, so a frame always follows.
RenderForever ==
    /\ pc = "events"
    /\ pc' = "tick"
    /\ UNCHANGED <<positions, playing, count, running, caption, ticked, advances,
                   delivered, undo>>

\* screen.fill, draw_grid, display.update; then the while test, and
\* pygame.quit() once running is False.
Render ==
    /\ pc = "events"
    /\ pc' = IF running THEN "tick" ELSE "done"
    /\ UNCHANGED <<positions, playing, count, running, caption, ticked, advances,
                   delivered, undo>>

Next ==
    \/ Tick
    \/ Quit
    \/ \E px \in PointerXs, py \in PointerYs : MouseButtonDown(px, py)
    \/ KeySpace
    \/ KeyC
    \/ KeyG
    \/ Render

Spec == Init /\ [][Next]_vars

(***************************************************************************)
(* The rule on its own: a live set pressed onto the grid, the space key,   *)
(* and then frames with no input event.  Every such start is a state the   *)
(* program reaches by pointer presses, one space key and the redraw.       *)
(***************************************************************************)
\* The whole program with its scheduling: clock.tick(FPS) returns, and the
\* for loop over the list pygame.event.get() returned ends, so the frame's
\* render and while test are reached.
SpecFair == Init /\ [][Next]_vars /\ WF_vars(Tick) /\ WF_vars(Render)

InputCells == BoxCols \X BoxRows

InitRules ==
    /\ positions \in SUBSET InputCells
    /\ playing = TRUE
    /\ count = 0
    /\ running = TRUE
    /\ caption = "Paused"
    /\ pc = "tick"
    /\ ticked = 0
    /\ advances = 0
    /\ delivered = 0
    /\ undo = NoUndo

NextRules ==
    \/ Tick
    \/ Render

SpecRules == InitRules /\ [][NextRules]_vars

(***************************************************************************)
(* The pointer on its own: a paused session holding any live set pressed   *)
(* onto the grid, then pointer presses and frames.                         *)
(***************************************************************************)
InitToggle ==
    /\ positions \in SUBSET InputCells
    /\ playing = FALSE
    /\ count = 0
    /\ running = TRUE
    /\ caption = "Paused"
    /\ pc = "events"
    /\ ticked = 0
    /\ advances = 0
    /\ delivered = 0
    /\ undo = FreshUndo

NextToggle ==
    \/ \E px \in PointerXs, py \in PointerYs : MouseButtonDown(px, py)
    \/ Tick
    \/ Render

SpecToggle == InitToggle /\ [][NextToggle]_vars

(***************************************************************************)
(* The rule of the game, stated on the plane: the eight coordinates        *)
(* adjacent to c and how many of them are live.                            *)
(***************************************************************************)
Adjacent(c) ==
    {<<c[1] + dx, c[2] + dy>> : dx \in {-1, 0, 1}, dy \in {-1, 0, 1}} \ {c}

LiveAdjacent(c, live) == Cardinality(Adjacent(c) \cap live)

\* Coordinates the properties range over: the grid and one ring around it.
Probe == (-1 .. GRID_WIDTH + 1) \X (-1 .. GRID_HEIGHT + 1)

\* Coordinates get_neighbors can return.
InBounds == (0 .. GRID_WIDTH) \X (0 .. GRID_HEIGHT)

\* C1 as stated: every coordinate, wherever it lies, with exactly 3 live
\* adjacent coordinates is in adjust_grid(positions).
BirthRuleAnywhere ==
    LET new_positions == adjust_grid(positions)
    IN  \A c \in Probe :
            LiveAdjacent(c, positions) = 3 => c \in new_positions

\* C1 (amended): every coordinate with 0 <= col <= GRID_WIDTH and
\* 0 <= row <= GRID_HEIGHT that has exactly 3 live adjacent coordinates is in
\* adjust_grid(positions), whether or not it is live.
BirthRule ==
    LET new_positions == adjust_grid(positions)
    IN  \A c \in InBounds :
            LiveAdjacent(c, positions) = 3 => c \in new_positions

\* An advance has produced a live cell in column GRID_WIDTH (no press and no
\* draw can put one there) and a dead in-bounds cell is about to be born.
BirthRuleWitness ==
    /\ advances >= 1
    /\ \E c \in positions : c[1] = GRID_WIDTH
    /\ \E c \in InBounds \ positions : LiveAdjacent(c, positions) = 3

\* C2: every live cell with exactly 2 or exactly 3 live neighbours is in
\* adjust_grid(positions).
SurvivalRule ==
    LET new_positions == adjust_grid(positions)
    IN  \A c \in positions :
            LiveAdjacent(c, positions) \in {2, 3} => c \in new_positions

\* After an advance, one live cell has 2 live neighbours and another has 3.
SurvivalRuleWitness ==
    /\ advances >= 1
    /\ \E c \in positions : LiveAdjacent(c, positions) = 2
    /\ \E c \in positions : LiveAdjacent(c, positions) = 3

\* C3: a live cell whose live-neighbour count is not 2 or 3, and a dead
\* coordinate whose count is not exactly 3, are not in adjust_grid(positions).
DeathRule ==
    LET new_positions == adjust_grid(positions)
    IN  \A c \in Probe :
            /\ (c \in positions /\ LiveAdjacent(c, positions) \notin {2, 3})
                  => c \notin new_positions
            /\ (c \notin positions /\ LiveAdjacent(c, positions) # 3)
                  => c \notin new_positions

\* After an advance: an overcrowded live cell, an isolated live cell and a
\* dead cell with 2 live neighbours, all at once.
DeathRuleWitness ==
    /\ advances >= 1
    /\ \E c \in positions : LiveAdjacent(c, positions) >= 4
    /\ \E c \in positions : LiveAdjacent(c, positions) <= 1
    /\ \E c \in InBounds \ positions : LiveAdjacent(c, positions) = 2

\* C4: the horizontal blinker advances to the vertical one and the vertical
\* one back to the horizontal one.
BlinkerPeriod2 ==
    /\ positions = BlinkerH => adjust_grid(positions) = BlinkerV
    /\ positions = BlinkerV => adjust_grid(positions) = BlinkerH

\* Two advances, on the ticks they were due, and the blinker is back.
BlinkerWitness ==
    /\ positions = BlinkerH
    /\ advances = 2
    /\ ticked = 2 * update_freq
    /\ playing

\* C5: once the block is the live set, a frame with no input event (tick
\* step, redraw) leaves it the live set.
BlockFixed ==
    [][(positions = Block /\ (Tick \/ Render)) => positions' = Block]_vars

\* The block, pressed cell by cell, has gone through two advances.
BlockWitness ==
    /\ positions = Block
    /\ advances >= 2
    /\ playing

\* C6: two pointer presses in succession on the same cell, with no advance
\* between them, leave the live set as it was before the first.
ToggleRoundTrip == undo.n = 2 => positions = undo.before

\* A live cell pressed twice (at any two of its pixels): removed, then back.
ToggleWitness ==
    /\ undo.n = 2
    /\ undo.cell \in positions
    /\ Cardinality(positions) >= 2

\* C7: fewer than update_freq ticks while playing, from counter 0, produce
\* no advance; the update_freq-th produces the first one and leaves count 0.
ClockOneAdvance ==
    /\ ticked < update_freq => advances = 0
    /\ ticked = update_freq => (advances = 1 /\ count = 0)

\* The first advance has just happened, on a live set it changed.
ClockWitness ==
    /\ ticked = update_freq
    /\ advances = 1
    /\ count = 0
    /\ positions = BlinkerH

\* C8: while paused, the tick step leaves count and the live set alone and
\* advances nothing; the live set changes only as an input event is processed.
PausedTickIdle ==
    [][~playing =>
        /\ pc = "tick" =>
              (count' = count /\ positions' = positions /\ advances' = advances)
        /\ positions' # positions =>
              (pc = "events" /\ delivered' = delivered + 1)]_vars

\* Paused with the counter part-way and a live set; the last tick step ran
\* paused (it set the caption) and left them so.
PausedWitness ==
    /\ ~playing
    /\ caption = "Paused"
    /\ count > 0
    /\ positions # {}
    /\ pc = "events"

\* C9 as stated: the session starts paused, empty, count 0, and playing
\* changes only in a step of the space key.
PhaseOnlySpace ==
    /\ (~playing /\ positions = {} /\ count = 0)
    /\ [][playing' # playing => KeySpace]_vars

\* C9 (amended): the session starts paused, empty, count 0, and playing
\* changes only in a step of the space key or, from playing to paused, in a
\* step of the clear key.
PhaseOnlySpaceOrClear ==
    /\ (~playing /\ positions = {} /\ count = 0)
    /\ [][playing' # playing =>
            (KeySpace \/ (KeyC /\ playing /\ ~playing'))]_vars

\* The first event of the session was the space key: the caption of the
\* frame still says Paused and the session is playing.
PhaseWitness ==
    /\ playing
    /\ caption = "Paused"
    /\ delivered = 1
    /\ pc = "events"

\* C10: a step of the clear key ends with the live set empty, the session
\* paused and count 0, whatever they were.
ClearResets ==
    [][KeyC => (positions' = {} /\ ~playing' /\ count' = 0)]_vars

\* The clear key has been processed in a frame whose tick step ran playing
\* (the caption), after others had counted (ticked is back at 0).
ClearWitness ==
    /\ positions = {}
    /\ ~playing
    /\ count = 0
    /\ caption = "Playing"
    /\ ticked = 0
    /\ delivered = MaxEvents
    /\ pc = "events"

\* Cells a draw of the model can give.
DrawCells == RandomFirst \X RandomSecond

QuitEndsLoop ==
    /\ [][~running =>
            /\ ~Tick
            /\ ~running'
            /\ pc = "events"
            /\ pc' \in {"events", "done"}]_vars
    /\ [][pc = "done" => UNCHANGED vars]_vars
    /\ (~running ~> pc = "done")

\* The loop has ended after Quit with a live set that was playing.
QuitWitness ==
    /\ pc = "done"
    /\ ~running
    /\ playing
    /\ positions # {}
    /\ advances > 0

\* C13: adjust_grid of the empty set is the empty set, and a frame taken
\* while playing with no event leaves an empty live set empty, whether or
\* not the frame advances the generation.
EmptyFixedPoint ==
    [][positions = {} => (adjust_grid(positions) = {} /\ positions' = {})]_vars

\* The live set is empty after two advances and the next frame advances it
\* again.
EmptyWitness ==
    /\ positions = {}
    /\ playing
    /\ advances = 2
    /\ pc = "tick"
    /\ count = update_freq - 1

\* Coordinates adjust_grid passes to get_neighbors for a live set: the live
\* cells and their neighbours.
Queried(live) == live \cup UNION {get_neighbors(q) : q \in live}

\* C14: for every coordinate (x, y) the next advance passes to get_neighbors,
\* the result is exactly the coordinates (x+dx, y+dy), (dx, dy) in
\* {-1,0,1}^2 minus (0,0), with 0 <= x+dx <= GRID_WIDTH and
\* 0 <= y+dy <= GRID_HEIGHT: none further than one step from (x, y), never
\* (x, y) itself, 8 of them when 1 <= x <= GRID_WIDTH-1 and
\* 1 <= y <= GRID_HEIGHT-1, and index GRID_WIDTH / GRID_HEIGHT among them
\* when (x, y) is on the last drawn column / row.
NeighborsExact ==
    \A p \in Queried(positions) :
        LET n == get_neighbors(p)
        IN  /\ n = {c \in Adjacent(p) : /\ 0 <= c[1] /\ c[1] <= GRID_WIDTH
                                        /\ 0 <= c[2] /\ c[2] <= GRID_HEIGHT}
            /\ p \notin n
            /\ \A c \in n : /\ c[1] - p[1] \in {-1, 0, 1}
                            /\ c[2] - p[2] \in {-1, 0, 1}
            /\ (/\ 1 <= p[1] /\ p[1] <= GRID_WIDTH - 1
                /\ 1 <= p[2] /\ p[2] <= GRID_HEIGHT - 1) => Cardinality(n) = 8
            /\ p[1] = GRID_WIDTH - 1 => \E c \in n : c[1] = GRID_WIDTH
            /\ p[2] = GRID_HEIGHT - 1 => \E c \in n : c[2] = GRID_HEIGHT

\* An advance has put live cells on column 0 and on column GRID_WIDTH, so
\* get_neighbors is asked about cells at both edges and about inner cells.
NeighborsWitness ==
    /\ advances > 0
    /\ \E c \in positions : c[1] = 0
    /\ \E c \in positions : c[1] = GRID_WIDTH
    /\ \E c \in positions : /\ 1 <= c[1] /\ c[1] <= GRID_WIDTH - 1
                            /\ 1 <= c[2] /\ c[2] <= GRID_HEIGHT - 1

\* Cells the window draws, and the cells get_neighbors can return past them.
Visible == (0 .. GRID_WIDTH - 1) \X (0 .. GRID_HEIGHT - 1)
Outside == InBounds \ Visible

\* C15: in every frame that advances the generation, each dead cell on
\* column GRID_WIDTH or row GRID_HEIGHT with exactly 3 live adjacent cells
\* is live after the advance; so cells pressed on the last drawn column or
\* row bring a cell outside the drawn grid to life.
OutsideBorn ==
    [][(pc = "tick" /\ playing /\ count + 1 >= update_freq) =>
          \A c \in Outside \ positions :
              LiveAdjacent(c, positions) = 3 => c \in positions']_vars

\* After the first advance of a pattern of drawn cells, a cell on column
\* GRID_WIDTH and a cell on row GRID_HEIGHT are live.
OutsideWitness ==
    /\ advances = 1
    /\ ticked = update_freq
    /\ \E c \in positions : c[1] = GRID_WIDTH /\ c[2] < GRID_HEIGHT
    /\ \E c \in positions : c[2] = GRID_HEIGHT /\ c[1] < GRID_WIDTH

\* C16: after the tick step and after every event, hence at the end of every
\* frame, 0 <= count < update_freq.
CounterInRange == 0 <= count /\ count < update_freq

\* Paused at the end of a frame with the counter one short of update_freq,
\* after an advance has set it to 0 and the ticks went on.
CounterWitness ==
    /\ pc = "tick"
    /\ ~playing
    /\ advances >= 1
    /\ count = update_freq - 1

\* C17: a frame starts with its tick step, which goes on to the events; no
\* step taken during the events or the render steps the counter, advances
\* the generation or rewrites the caption (the counter and the history of
\* ticks only fall to 0, by the clear key); there the live set changes only
\* by an event; and the render leaves the live set as the tick step and the
\* events made it.
FrameOrder ==
    [][/\ pc = "tick" => (Tick /\ pc' = "events")
       /\ pc = "events" =>
            /\ count' = count \/ (count' = 0 /\ ~playing')
            /\ ticked' = ticked \/ ticked' = 0
            /\ advances' = advances \/ advances' = 0
            /\ caption' = caption
            /\ positions' # positions => (delivered' = delivered + 1 /\ pc' = pc)
            /\ pc' # pc => (Render /\ positions' = positions)]_vars

\* The frame whose tick step advanced the generation (the lone pressed cell
\* died), still showing "Paused" from the frame of the space key or already
\* "Playing", with a cell pressed after the advance left live by that frame.
FrameOrderWitness ==
    /\ pc = "events"
    /\ playing
    /\ count = 0
    /\ advances = 1
    /\ ticked = update_freq
    /\ delivered = 3
    /\ Cardinality(positions) = 1

\* Cells whose membership differs between two live sets.
Changed(old, new) == (old \ new) \cup (new \ old)

\* The first and the last pixel of each cell a press can land on; a press on
\* a pixel between them is the same step as a press on either.
EdgeXs == {px \in PointerXs : px % TILE_SIZE \in {0, TILE_SIZE - 1}}
EdgeYs == {py \in PointerYs : py % TILE_SIZE \in {0, TILE_SIZE - 1}}

\* C18: a pointer press at pixel (px, py) changes the membership of the
\* cell (px div TILE_SIZE, py div TILE_SIZE) and of no other cell, and no
\* step that changes playing or count is a press or a step of the generate
\* key.
PressFlipsOne ==
    [][/\ \A px \in EdgeXs, py \in EdgeYs :
             MouseButtonDown(px, py) =>
                Changed(positions, positions')
                   = {<<px \div TILE_SIZE, py \div TILE_SIZE>>}
       /\ (playing' # playing \/ count' # count) =>
             /\ ~KeyG
             /\ \A px \in PointerXs, py \in PointerYs :
                   ~MouseButtonDown(px, py)]_vars

\* While playing, part way to the next advance, a cell pressed next to drawn
\* corner cells is live with them.
PressWitness ==
    /\ playing
    /\ count = update_freq - 1
    /\ advances = 0
    /\ pc = "events"
    /\ <<0, 0>> \in positions
    /\ <<1, 1>> \in positions
    /\ Cardinality(positions) = 2

\* C19: with ticked the frames ticked while playing since the start or the
\* last clear key, and advances the advances since then, as long as the
\* history counters have not reached their caps:
\* advances = ticked div update_freq and count = ticked mod update_freq,
\* whatever space, pointer and generate events came in between.
CounterCarries ==
    ticked < MaxTicks =>
        /\ advances = ticked \div update_freq
        /\ count = ticked % update_freq

\* Resumed in this frame (the caption still shows the pause the tick step
\* saw) with the progress made before the pause kept: one advance and
\* update_freq - 1 further ticks.
CarriesWitness ==
    /\ playing
    /\ caption = "Paused"
    /\ pc = "events"
    /\ advances = 1
    /\ ticked = 2 * update_freq - 1
    /\ count = update_freq - 1

(***************************************************************************)
(* The whole loop taken up later in a session: playing, with any live set  *)
(* pressed onto the grid, and one event still to come.                     *)
(***************************************************************************)
InitLive ==
    /\ positions \in SUBSET InputCells
    /\ playing = TRUE
    /\ count = 0
    /\ running = TRUE
    /\ caption = "Paused"
    /\ pc = "tick"
    /\ ticked = 0
    /\ advances = 0
    /\ delivered = MaxEvents - 1
    /\ undo = NoUndo

SpecLive == InitLive /\ [][Next]_vars

\* C20: every live cell (col, row) has 0 <= col <= GRID_WIDTH and
\* 0 <= row <= GRID_HEIGHT.
LiveInBounds ==
    \A c \in positions :
        /\ 0 <= c[1] /\ c[1] <= GRID_WIDTH
        /\ 0 <= c[2] /\ c[2] <= GRID_HEIGHT

\* After an advance, live cells on column 0 and on column GRID_WIDTH, next
\* to the coordinates get_neighbors leaves out.
LiveInBoundsWitness ==
    /\ advances >= 1
    /\ delivered = MaxEvents
    /\ \E c \in positions : c[2] = 0
    /\ \E c \in positions : c[2] = GRID_HEIGHT
    /\ \E c \in positions : c[1] = 0
    /\ \E c \in positions : c[1] = GRID_WIDTH

====
